---------------------------- MODULE Spec2Model ----------------------------
(***************************************************************************)
(* Model of the anemia dashboard's core (src/app.py): the age resolver     *)
(* parse_age, the WHO classifier classify_anemia_who, and the refresh      *)
(* pipeline load_data / refresh_data that normalises a fetched table and   *)
(* stores the snapshot.                                                    *)
(*                                                                         *)
(* Representation.                                                         *)
(*  - A Python value is a record [kind, n, s]: kind "none" (None), "nan"   *)
(*    (float NaN), "num" (a number, n), "str" (a string, s), "date" (a     *)
(*    datetime object).                                                    *)
(*  - A string is the sequence of its characters, so lower(), strip(),     *)
(*    replace(), title(), the `in` test, float() and the regular           *)
(*    expressions are computed character by character.                     *)
(*  - A number is fixed point: n = value * Scale, Scale = 12000, so that   *)
(*    three decimals and months/12 are exact.  The literals drawn as       *)
(*    inputs have at most three decimals and never fall on a rounding tie. *)
(***************************************************************************)
EXTENDS Integers, Sequences, FiniteSets, TLC

(***************************************************************************)
(* Bounds of the model.                                                    *)
(***************************************************************************)
\* successive applications of parse_age to its own result
MaxApply == 2
\* rows of a fetched table
MaxRows == 2

(***************************************************************************)
(* Values.                                                                 *)
(***************************************************************************)
Scale == 12 * 1000
Cent == Scale \div 100

None == [kind |-> "none", n |-> 0, s |-> <<>>]
NaN == [kind |-> "nan", n |-> 0, s |-> <<>>]
DateObj == [kind |-> "date", n |-> 0, s |-> <<>>]
Num(x) == [kind |-> "num", n |-> x, s |-> <<>>]
Str(cs) == [kind |-> "str", n |-> 0, s |-> cs]
\* a conversion that raises (ValueError / TypeError)
Raised == [kind |-> "raised", n |-> 0, s |-> <<>>]

\* i units and f thousandths, as a fixed-point number
Dec(i, f) == i * Scale + f * 12

\* pd.isna(v) for a scalar
isna(v) == v.kind \in {"none", "nan"}

(***************************************************************************)
(* Characters and strings.                                                 *)
(***************************************************************************)
LowerAlpha == <<"a","b","c","d","e","f","g","h","i","j","k","l","m","n","o","p","q","r","s","t","u","v","w","x","y","z">>
UpperAlpha == <<"A","B","C","D","E","F","G","H","I","J","K","L","M","N","O","P","Q","R","S","T","U","V","W","X","Y","Z">>
DigitChars == <<"0","1","2","3","4","5","6","7","8","9">>

IsDigit(c) == \E i \in 1..10 : DigitChars[i] = c
DigitVal(c) == (CHOOSE i \in 1..10 : DigitChars[i] = c) - 1
IsUpper(c) == \E i \in 1..26 : UpperAlpha[i] = c
IsLower(c) == \E i \in 1..26 : LowerAlpha[i] = c
IsAlpha(c) == IsUpper(c) \/ IsLower(c)
IsSpace(c) == c \in {" ", "\t", "\n"}

LowerChar(c) == IF IsUpper(c) THEN LowerAlpha[CHOOSE i \in 1..26 : UpperAlpha[i] = c] ELSE c
UpperChar(c) == IF IsLower(c) THEN UpperAlpha[CHOOSE i \in 1..26 : LowerAlpha[i] = c] ELSE c

\* str.lower()
Lower(cs) == [i \in 1..Len(cs) |-> LowerChar(cs[i])]

\* str.title(): a letter after a non-letter is upper-cased, any other letter lower-cased
Title(cs) ==
    [i \in 1..Len(cs) |->
        IF i = 1 \/ ~IsAlpha(cs[IF i = 1 THEN 1 ELSE i - 1])
        THEN UpperChar(cs[i]) ELSE LowerChar(cs[i])]

\* str.strip()
RECURSIVE LStrip(_)
LStrip(cs) == IF cs # <<>> /\ IsSpace(Head(cs)) THEN LStrip(Tail(cs)) ELSE cs
RECURSIVE RStrip(_)
RStrip(cs) ==
    IF cs # <<>> /\ IsSpace(cs[Len(cs)]) THEN RStrip(SubSeq(cs, 1, Len(cs) - 1)) ELSE cs
Strip(cs) == RStrip(LStrip(cs))

\* cs starts with pat
StartsWith(cs, pat) == Len(pat) <= Len(cs) /\ SubSeq(cs, 1, Len(pat)) = pat

\* str.replace(pat, ""): every non-overlapping occurrence, left to right
RECURSIVE Remove(_, _)
Remove(cs, pat) ==
    IF cs = <<>> THEN <<>>
    ELSE IF StartsWith(cs, pat) THEN Remove(SubSeq(cs, Len(pat) + 1, Len(cs)), pat)
    ELSE <<Head(cs)>> \o Remove(Tail(cs), pat)

\* pat in cs
Contains(cs, pat) ==
    \E i \in 1..(Len(cs) - Len(pat) + 1) : SubSeq(cs, i, i + Len(pat) - 1) = pat

(***************************************************************************)
(* Numbers read from text.                                                 *)
(***************************************************************************)
AllDigits(cs) == \A i \in 1..Len(cs) : IsDigit(cs[i])

RECURSIVE DigitsVal(_)
DigitsVal(cs) ==
    IF cs = <<>> THEN 0 ELSE DigitsVal(SubSeq(cs, 1, Len(cs) - 1)) * 10 + DigitVal(cs[Len(cs)])

\* the fraction digits cs (at most three) in fixed point
FracVal(cs) ==
    CASE Len(cs) = 0 -> 0
      [] Len(cs) = 1 -> DigitsVal(cs) * 100 * 12
      [] Len(cs) = 2 -> DigitsVal(cs) * 10 * 12
      [] OTHER -> DigitsVal(SubSeq(cs, 1, 3)) * 12

\* position of the first "." of cs, or 0
DotPos(cs) == IF \E i \in 1..Len(cs) : cs[i] = "." THEN CHOOSE i \in 1..Len(cs) : cs[i] = "." /\ \A j \in 1..(i - 1) : cs[j] # "." ELSE 0

\* an unsigned decimal literal: digits, digits "." [digits], "." digits
UnsignedFloat(cs) ==
    LET d == DotPos(cs)
        ip == IF d = 0 THEN cs ELSE SubSeq(cs, 1, d - 1)
        fp == IF d = 0 THEN <<>> ELSE SubSeq(cs, d + 1, Len(cs))
    IN  IF cs # <<>> /\ AllDigits(ip) /\ AllDigits(fp) /\ Len(ip) + Len(fp) > 0
        THEN Num(DigitsVal(ip) * Scale + FracVal(fp))
        ELSE Raised

\* float(text): surrounding blanks dropped, an optional sign, a decimal literal
\* or "nan" (exponents and infinities are not among the inputs drawn)
FloatOfStr(cs) ==
    LET t == Strip(cs)
        neg == t # <<>> /\ Head(t) = "-"
        body == IF t # <<>> /\ Head(t) \in {"-", "+"} THEN Tail(t) ELSE t
        u == UnsignedFloat(body)
    IN  IF Lower(body) = <<"n","a","n">> THEN NaN
        ELSE IF u = Raised THEN Raised
        ELSE IF neg THEN Num(0 - u.n) ELSE u

\* round(x, 2), half to even
Round2(x) ==
    LET q == x \div Cent
        r == x % Cent
    IN  IF 2 * r < Cent THEN q * Cent
        ELSE IF 2 * r > Cent THEN (q + 1) * Cent
        ELSE IF q % 2 = 0 THEN q * Cent ELSE (q + 1) * Cent

(***************************************************************************)
(* The regular expressions of parse_age.                                   *)
(***************************************************************************)
\* the index after the longest run of digits that starts at i
RECURSIVE DigitRunEnd(_, _)
DigitRunEnd(cs, i) ==
    IF i <= Len(cs) /\ IsDigit(cs[i]) THEN DigitRunEnd(cs, i + 1) ELSE i

\* the index after a match of \d+(\.\d+)? that starts at the digit at i
NumberEnd(cs, i) ==
    LET j == DigitRunEnd(cs, i)
    IN  IF j + 1 <= Len(cs) /\ cs[j] = "." /\ IsDigit(cs[j + 1])
        THEN DigitRunEnd(cs, j + 1) ELSE j

RECURSIVE SkipSpace(_, _)
SkipSpace(cs, i) ==
    IF i <= Len(cs) /\ IsSpace(cs[i]) THEN SkipSpace(cs, i + 1) ELSE i

\* (\d+(\.\d+)?)\s*(u|...) matches at i; every alternative of the unit group
\* begins with the same letter u, so the group matches exactly when u follows
UnitMatchAt(cs, i, u) ==
    /\ i <= Len(cs) /\ IsDigit(cs[i])
    /\ LET l == SkipSpace(cs, NumberEnd(cs, i)) IN l <= Len(cs) /\ cs[l] = u

\* re.search of the unit pattern: group(1) of the leftmost match, or <<>>
UnitSearch(cs, u) ==
    IF \E i \in 1..Len(cs) : UnitMatchAt(cs, i, u)
    THEN LET i == CHOOSE k \in 1..Len(cs) :
                    UnitMatchAt(cs, k, u) /\ \A j \in 1..(k - 1) : ~UnitMatchAt(cs, j, u)
         IN  SubSeq(cs, i, NumberEnd(cs, i) - 1)
    ELSE <<>>

\* re.search(r'\d{1,4}[-/]\d{1,2}[-/]\d{1,4}', cs)
DateLike(cs) ==
    \E i \in 1..Len(cs) : \E b \in 1..2 :
        /\ i + b + 3 <= Len(cs)
        /\ IsDigit(cs[i])
        /\ cs[i + 1] \in {"-", "/"}
        /\ AllDigits(SubSeq(cs, i + 2, i + 1 + b))
        /\ cs[i + 2 + b] \in {"-", "/"}
        /\ IsDigit(cs[i + 3 + b])

\* re.findall(r'(\d+(\.\d+)?)', cs): the numbers of cs from index i on
RECURSIVE FindNums(_, _)
FindNums(cs, i) ==
    IF i > Len(cs) THEN <<>>
    ELSE IF IsDigit(cs[i])
         THEN <<SubSeq(cs, i, NumberEnd(cs, i) - 1)>> \o FindNums(cs, NumberEnd(cs, i))
         ELSE FindNums(cs, i + 1)


(***************************************************************************)
(* parse_age (src/app.py lines 32-85).                                     *)
(***************************************************************************)
\* the upper limit of an age, in years
MaxAge == 150
\* a years number above this is a birth year
BirthYear == 1900

\* parse_age_numeric with the range check of the string branch (0 < v < 150)
parse_age_numeric_strict(age_val) ==
    IF 0 < age_val.n /\ age_val.n < MaxAge * Scale THEN age_val ELSE None

\* "already numeric": isinstance(age_val, (int, float))
parse_age_numeric(age_val) ==
    IF age_val.n < MaxAge * Scale THEN age_val ELSE None

\* step 1: the text with 'yr' removed, read as one number
clean_num(age_str) ==
    Strip(Remove(Remove(Remove(age_str, <<"y","r">>), <<"y","r","s">>), <<"y","r",".">>))

\* years_months without the birth-year rule of line 71
years_months_keep_birth_year(age_str) ==
    LET y_match == UnitSearch(age_str, "y")
        m_match == UnitSearch(age_str, "m")
        nums == FindNums(age_str, 1)
        flt(cs) == FloatOfStr(cs).n
    IN  IF y_match # <<>> \/ m_match # <<>>
        THEN [years |-> IF y_match # <<>> THEN flt(y_match) ELSE 0,
              months |-> IF m_match # <<>> THEN flt(m_match) ELSE 0]
        ELSE IF Len(nums) >= 1
             THEN [years |-> flt(nums[1]),
                   months |-> IF Len(nums) >= 2 THEN flt(nums[2]) ELSE 0]
             ELSE [years |-> 0, months |-> 0]

\* steps 3 and 4: years and months, from the unit tokens or from the bare numbers
years_months(age_str) ==
    LET y_match == UnitSearch(age_str, "y")
        m_match == UnitSearch(age_str, "m")
        nums == FindNums(age_str, 1)
        flt(cs) == FloatOfStr(cs).n
    IN  IF y_match # <<>> \/ m_match # <<>>
        THEN LET years == IF y_match # <<>> THEN flt(y_match) ELSE 0
                 months == IF m_match # <<>> THEN flt(m_match) ELSE 0
             IN  [years |-> IF years > BirthYear * Scale THEN 0 ELSE years,
                  months |-> months]
        ELSE IF Len(nums) >= 1
             THEN IF flt(nums[1]) > BirthYear * Scale
                  THEN [years |-> IF Len(nums) >= 2 THEN flt(nums[2]) ELSE 0,
                        months |-> IF Len(nums) >= 3 THEN flt(nums[3]) ELSE 0]
                  ELSE [years |-> flt(nums[1]),
                        months |-> IF Len(nums) >= 2 THEN flt(nums[2]) ELSE 0]
             ELSE [years |-> 0, months |-> 0]

\* the string branch
parse_age_str(s) ==
    LET age_str == Strip(Lower(s))
        val == FloatOfStr(clean_num(age_str))
        ym == years_months(age_str)
        res == Round2(ym.years + (ym.months \div 12))
    IN  IF val # Raised
        THEN (IF val.kind = "num" /\ val.n < MaxAge * Scale THEN val ELSE None)
        ELSE IF DateLike(age_str) THEN None
        ELSE IF 0 < res /\ res < MaxAge * Scale THEN Num(res) ELSE None

parse_age(age_val) ==
    IF isna(age_val) \/ age_val = Str(<<>>) THEN None
    ELSE IF age_val.kind = "num" THEN parse_age_numeric(age_val)
    ELSE IF age_val.kind = "date" THEN None
    ELSE parse_age_str(age_val.s)

(***************************************************************************)
(* String literals of the source and of the inputs.                        *)
(***************************************************************************)
PREGNANT == <<"p","r","e","g","n","a","n","t">>
M5_9 == <<"5","-","9"," ","m","o","n","t","h","s">>
CHILDREN_M5_9 == <<"c","h","i","l","d","r","e","n"," ","5","-","9"," ","m","o","n","t","h","s">>
Y5_9 == <<"5","-","9"," ","y","e","a","r","s">>
M60 == <<"6","0"," ","m","o","n","t","h","s">>
ADOL_GIRLS == <<"a","d","o","l","e","s","c","e","n","t"," ","g","i","r","l","s">>
ADOLESCENT == <<"a","d","o","l","e","s","c","e","n","t">>
FEMALE == <<"f","e","m","a","l","e">>
ADOL_BOYS == <<"a","d","o","l","e","s","c","e","n","t"," ","b","o","y","s">>
MALE == <<"m","a","l","e">>
WOMEN_REPRO == <<"w","o","m","e","n"," ","o","f"," ","r","e","p","r","o","d","u","c","t","i","v","e"," ","a","g","e">>
REPRO_AGE == <<"r","e","p","r","o","d","u","c","t","i","v","e"," ","a","g","e">>

\* the labels of BENEFICIARY_MAP (lines 23-30)
L_Pregnant == <<"P","r","e","g","n","a","n","t"," ","W","o","m","e","n">>
L_M5_9 == <<"C","h","i","l","d","r","e","n"," ","5","-","9"," ","M","o","n","t","h","s">>
L_Y5_9 == <<"C","h","i","l","d","r","e","n"," ","A","g","e","d"," ","5","-","9"," ","Y","e","a","r","s"," "," ","(","6","0"," ","M","o","n","t","h","s",")">>
L_Girls == <<"A","d","o","l","e","s","c","e","n","t"," ","G","i","r","l","s"," ","1","0","-","1","9"," ","Y","e","a","r","s">>
L_Boys == <<"A","d","o","l","e","s","c","e","n","t"," ","B","o","y","s"," ","1","0","-","1","9"," ","Y","e","a","r","s">>
L_Repro == <<"W","o","m","e","n"," ","O","f"," ","R","e","p","r","o","d","u","c","t","i","v","e"," ","A","g","e">>

\* the keys of cat_map (line 330)
CAT_Normal == <<"N","o","r","m","a","l">>
CAT_Mild == <<"M","i","l","d"," ","a","n","e","m","i","a">>
CAT_Moderate == <<"M","o","d","e","r","a","t","e"," ","a","n","e","m","i","a">>
CAT_Severe == <<"S","e","v","e","r","e"," ","a","n","e","m","i","a">>

\* input strings
S_2yr6m == <<"2"," ","y","r"," ","6"," ","m">>
S_1998 == <<"1","9","9","8">>
S_Date == <<"2","0","2","1","-","0","6","-","0","1">>
S_NA == <<"n","/","a">>
S_10_5 == <<"1","0",".","5">>
S_Female == <<"F","e","m","a","l","e">>
S_Male == <<"M","a","l","e">>
S_Other == <<"O","t","h","e","r">>
S_Nan == <<"N","a","n">>
S_Elderly == <<"E","l","d","e","r","l","y">>
S_PREGNANT_woman == <<"P","R","E","G","N","A","N","T"," ","w","o","m","a","n">>
S_Adolescent == <<"A","d","o","l","e","s","c","e","n","t">>

(***************************************************************************)
(* classify_anemia_who (src/app.py lines 87-248).                          *)
(***************************************************************************)
\* float(v); Raised when float() raises
FloatOf(v) ==
    CASE v.kind = "num" -> v
      [] v.kind = "nan" -> NaN
      [] v.kind = "str" -> FloatOfStr(v.s)
      [] OTHER -> Raised

\* a >= b and a < b on floats: every comparison with NaN is false
Ge(a, t) == a.kind = "num" /\ a.n >= t
Lt(a, t) == a.kind = "num" /\ a.n < t

\* one if / elif / elif / else ladder over the hemoglobin
Grade(hgb, normal, mild, moderate) ==
    IF Ge(hgb, normal) THEN "normal"
    ELSE IF Ge(hgb, mild) THEN "mild"
    ELSE IF Ge(hgb, moderate) THEN "moderate"
    ELSE "severe"

\* TableA with its first bound exclusive (hgb > 11.0)
TableA_exclusive(hgb) ==
    IF Ge(hgb, Dec(11, 0) + 1) THEN "normal"
    ELSE IF Ge(hgb, Dec(10, 0)) THEN "mild"
    ELSE IF Ge(hgb, Dec(7, 0)) THEN "moderate"
    ELSE "severe"

\* pregnant women, children 5-9 months, age under 5
TableA(hgb) == Grade(hgb, Dec(11, 0), Dec(10, 0), Dec(7, 0))
\* children 5-9 years, age 5 to 11
TableB(hgb) == Grade(hgb, Dec(11, 500), Dec(11, 0), Dec(8, 0))
\* adolescents, women of reproductive age, age 12 and over (female, unknown)
TableC(hgb) == Grade(hgb, Dec(12, 0), Dec(11, 0), Dec(8, 0))
\* age 12 and over, male
TableCMale(hgb) == Grade(hgb, Dec(13, 0), Dec(11, 0), Dec(8, 0))

\* hgb_missing that tests `hgb is None` alone
hgb_missing_none_only(hgb) == hgb.kind = "none"

\* lines 99-107: hemoglobin is required
hgb_missing(hgb) == isna(hgb)
hgb_float(hgb) == FloatOf(hgb)

\* lines 110-116: the age as a float, or None
age_float(age) ==
    IF ~isna(age) /\ ~(age.kind = "str" /\ Strip(age.s) = <<>>)
    THEN (IF FloatOf(age) = Raised THEN None ELSE FloatOf(age))
    ELSE None

\* lines 119-120: str(x).lower().strip(), "" for a missing value
norm_str(x) == IF ~isna(x) THEN Strip(Lower(x.s)) ELSE <<>>

\* by_age without the final else: an unknown gender is left unclassified
by_age_no_default(hgb, age, gender_str) ==
    IF Lt(age, Dec(5, 0)) THEN TableA(hgb)
    ELSE IF Lt(age, Dec(12, 0)) THEN TableB(hgb)
    ELSE IF Contains(gender_str, FEMALE) \/ gender_str = <<"f">> THEN TableC(hgb)
    ELSE IF Contains(gender_str, MALE) \/ gender_str = <<"m">> THEN TableCMale(hgb)
    ELSE "incomplete"

\* by_age with the male test first: "female" contains "male"
by_age_male_first(hgb, age, gender_str) ==
    IF Lt(age, Dec(5, 0)) THEN TableA(hgb)
    ELSE IF Lt(age, Dec(12, 0)) THEN TableB(hgb)
    ELSE IF Contains(gender_str, MALE) \/ gender_str = <<"m">> THEN TableCMale(hgb)
    ELSE TableC(hgb)

\* lines 190-245: the table chosen by age and gender
by_age(hgb, age, gender_str) ==
    IF Lt(age, Dec(5, 0)) THEN TableA(hgb)
    ELSE IF Lt(age, Dec(12, 0)) THEN TableB(hgb)
    ELSE IF Contains(gender_str, FEMALE) \/ gender_str = <<"f">> THEN TableC(hgb)
    ELSE IF Contains(gender_str, MALE) \/ gender_str = <<"m">> THEN TableCMale(hgb)
    ELSE TableC(hgb)

\* lines 124-248: the if / elif chain over the beneficiary, then the age
classify_rules(hgb, age, gender_str, beneficiary_str) ==
    IF Contains(beneficiary_str, PREGNANT) THEN TableA(hgb)
    ELSE IF Contains(beneficiary_str, M5_9) \/ Contains(beneficiary_str, CHILDREN_M5_9)
        THEN TableA(hgb)
    ELSE IF Contains(beneficiary_str, Y5_9) \/ Contains(beneficiary_str, M60)
        THEN TableB(hgb)
    ELSE IF Contains(beneficiary_str, ADOL_GIRLS)
            \/ (Contains(beneficiary_str, ADOLESCENT) /\ Contains(gender_str, FEMALE))
        THEN TableC(hgb)
    ELSE IF Contains(beneficiary_str, ADOL_BOYS)
            \/ (Contains(beneficiary_str, ADOLESCENT) /\ Contains(gender_str, MALE))
        THEN TableC(hgb)
    ELSE IF Contains(beneficiary_str, WOMEN_REPRO) \/ Contains(beneficiary_str, REPRO_AGE)
        THEN TableC(hgb)
    ELSE IF age # None THEN by_age(hgb, age, gender_str)
    ELSE "incomplete"

classify_anemia_who(hgb, age, gender, beneficiary) ==
    IF hgb_missing(hgb) THEN "incomplete"
    ELSE IF hgb_float(hgb) = Raised THEN "incomplete"
    ELSE classify_rules(hgb_float(hgb), age_float(age), norm_str(gender), norm_str(beneficiary))

\* the values classify_anemia_who returns
anemia_list == {"normal", "mild", "moderate", "severe", "incomplete"}

(***************************************************************************)
(* The arguments given to classify_anemia_who.                             *)
(***************************************************************************)
HgbInputs ==
    { None, NaN, Str(S_NA), Str(S_10_5) }
    \cup { Num(Dec(6, 900)), Num(Dec(7, 0)), Num(Dec(7, 900)), Num(Dec(8, 0)),
           Num(Dec(9, 900)), Num(Dec(10, 0)), Num(Dec(10, 500)), Num(Dec(10, 900)),
           Num(Dec(11, 0)), Num(Dec(11, 400)), Num(Dec(11, 500)), Num(Dec(11, 900)),
           Num(Dec(12, 0)), Num(Dec(12, 900)), Num(Dec(13, 0)) }
AgeInputs ==
    { None, NaN, Str(<<>>), Str(S_NA), Str(<<"3","0">>),
      Num(Dec(2, 500)), Num(Dec(4, 990)), Num(Dec(5, 0)), Num(Dec(11, 990)),
      Num(Dec(12, 0)), Num(Dec(30, 0)) }
GenderInputs ==
    { None, Str(<<>>), Str(S_Female), Str(S_Male), Str(<<"F">>), Str(<<"M">>), Str(S_Other) }
BenInputs ==
    { None, Str(<<>>), Str(S_Nan), Str(S_Elderly), Str(S_PREGNANT_woman), Str(S_Adolescent),
      Str(L_Pregnant), Str(L_M5_9), Str(L_Y5_9), Str(L_Girls), Str(L_Boys), Str(L_Repro) }

(***************************************************************************)
(* The ages given to parse_age.  A shape [form, y, yu, m, mu, sep, ord]    *)
(* says how the value is put together; AgeValue builds the value.          *)
(***************************************************************************)
YearNums ==
    { <<"0">>, <<"2">>, <<"2",".","5","5","7">>, <<"2","1">>, <<"1","4","9",".","9","9">>,
      <<"1","5","0">>, <<"2","0","0">>, <<"1","9","9","8">> }
MonthNums == { <<"0">>, <<"5">>, <<"6">>, <<"1","8">>, <<"1","8","0","0">> }
YearUnits == { <<"y">>, <<"y","r">>, <<"y","r","s">>, <<"y","e","a","r">>, <<"Y","e","a","r","s">> }
MonthUnits == { <<"m">>, <<"m","o">>, <<"m","o","n","t","h">>, <<"M","o","n","t","h","s">> }
UnitSeps == { <<>>, <<" ">> }

\* numbers that arrive as numbers
NumericAges ==
    { Num(Dec(0 - 3, 0)), Num(0), Num(Dec(2, 500)), Num(Dec(21, 0)), Num(Dec(149, 990)),
      Num(Dec(150, 0)), Num(Dec(1998, 0)) }

\* strings that are one number, a date, or free text
BareStrings == YearNums \cup { <<"-","3">>, <<" ","2","1"," ">>, <<"2","1",".","5">> }
DateStrings == { <<"2","0","2","1","-","0","6","-","0","1">>, <<"2","1","/","0","6","/","1","9">> }
TextStrings ==
    { <<"a","d","u","l","t">>, <<"a","b","o","u","t"," ","2"," ","6">>,
      <<"1","9","9","8"," ","2","5"," ","6">>, <<"b","o","r","n"," ","1","9","9","8">>,
      <<"2","1"," ","m","a","l","e">> }

NoPart == <<>>
AgeShape(form, y, yu, m, mu, sep, ord, val) ==
    [form |-> form, y |-> y, yu |-> yu, m |-> m, mu |-> mu, sep |-> sep, ord |-> ord, val |-> val]

AgeShapes ==
    { AgeShape("value", NoPart, NoPart, NoPart, NoPart, NoPart, "-", v) :
        v \in NumericAges \cup {None, NaN, DateObj, Str(<<>>)}
                \cup { Str(cs) : cs \in BareStrings \cup DateStrings \cup TextStrings } }
    \cup { AgeShape("y", y, yu, NoPart, NoPart, sep, "-", None) :
            y \in YearNums, yu \in YearUnits, sep \in UnitSeps }
    \cup { AgeShape("m", NoPart, NoPart, m, mu, sep, "-", None) :
            m \in MonthNums, mu \in MonthUnits, sep \in UnitSeps }
    \cup { AgeShape("ym", y, yu, m, mu, sep, ord, None) :
            y \in YearNums, yu \in YearUnits, m \in MonthNums, mu \in MonthUnits,
            sep \in UnitSeps, ord \in {"ym", "my"} }

\* the value a shape stands for, e.g. "2 yr 6 m"
AgeValue(sh) ==
    LET yp == sh.y \o sh.sep \o sh.yu
        mp == sh.m \o sh.sep \o sh.mu
    IN  CASE sh.form = "value" -> sh.val
          [] sh.form = "y" -> Str(yp)
          [] sh.form = "m" -> Str(mp)
          [] OTHER -> IF sh.ord = "ym" THEN Str(yp \o <<" ">> \o mp) ELSE Str(mp \o <<" ">> \o yp)

(***************************************************************************)
(* load_data (src/app.py lines 252-377) and refresh_data (lines 593-601).  *)
(*                                                                         *)
(* A fetched table is [cols, rows]: the columns it has and its rows.  A    *)
(* row has one field per modelled column; the field of a column the table  *)
(* lacks is Absent (the key is missing: row.get gives None).  A date is a  *)
(* value of kind "date" whose n is a day number; text that is no date      *)
(* coerces to NaT.                                                         *)
(***************************************************************************)
Absent == [kind |-> "absent", n |-> 0, s |-> <<>>]
Day(d) == [kind |-> "date", n |-> d, s |-> <<>>]
\* anemia_category of a row when the column was set to None (line 353)
PyNone == "<None>"

\* the columns modelled; Area_COde and PSU_Name stand for "Area COde" and "PSU Name"
Columns ==
    {"HGB", "Age", "DOB", "enrollment_date", "Gender", "Benificiery", "anemia_category",
     "Area_COde", "PSU_Name"}

\* row.get(col): None for a missing key
get(v) == IF v = Absent THEN None ELSE v

\* pd.to_datetime(v, errors="coerce")
to_datetime(v) == IF v.kind = "date" THEN v ELSE None

\* pd.to_numeric(v, errors="coerce")
coerce(x) == IF x.kind = "num" THEN x ELSE NaN
to_numeric(v) ==
    CASE v.kind = "num" -> v
      [] v.kind = "str" -> coerce(FloatOfStr(v.s))
      [] OTHER -> NaN

\* the value is an integer (as a number, or as text of digits)
IsIntLike(v) ==
    \/ (v.kind = "num" /\ v.n % Scale = 0)
    \/ (v.kind = "str" /\ Strip(v.s) # <<>> /\ AllDigits(Strip(v.s)))

\* str(i) for a natural number i
RECURSIVE IntChars(_)
IntChars(i) ==
    IF i < 10 THEN <<DigitChars[i + 1]>>
    ELSE IntChars(i \div 10) \o <<DigitChars[(i % 10) + 1]>>

\* the decimals of a float, without trailing zeros ("0" when there are none)
FracChars(th) ==
    IF th = 0 THEN <<"0">>
    ELSE IF th % 100 = 0 THEN IntChars(th \div 100)
    ELSE IF th % 10 = 0 THEN <<DigitChars[(th \div 100) + 1]>> \o IntChars((th \div 10) % 10)
    ELSE <<DigitChars[(th \div 100) + 1], DigitChars[((th \div 10) % 10) + 1]>> \o IntChars(th % 10)

\* str(x) of a number of an int64 column (as_int) or of a float64 column
NumChars(n, as_int) ==
    LET a == IF n < 0 THEN 0 - n ELSE n
        sign == IF n < 0 THEN <<"-">> ELSE <<>>
    IN  IF as_int THEN sign \o IntChars(a \div Scale)
        ELSE sign \o IntChars(a \div Scale) \o <<".">> \o FracChars((a % Scale) \div 12)

\* str.zfill(3)
zfill3(cs) ==
    IF Len(cs) >= 3 THEN cs
    ELSE IF Len(cs) = 2 THEN <<"0">> \o cs
    ELSE IF Len(cs) = 1 THEN <<"0", "0">> \o cs
    ELSE <<"0", "0", "0">>

\* line 326 for one value of the column; as_int: the column is int64
area_code_of(v, as_int) ==
    Str(zfill3(CASE v.kind = "str" -> v.s
                 [] v.kind = "num" -> NumChars(v.n, as_int)
                 [] v.kind = "none" -> <<"N","o","n","e">>
                 [] OTHER -> <<"n","a","n">>))

\* BENEFICIARY_MAP (lines 23-30): the label of a code, or <<>>
BENEFICIARY_MAP(n) ==
    CASE n = Dec(2, 0) -> L_Pregnant
      [] n = Dec(3, 0) -> L_M5_9
      [] n = Dec(4, 0) -> L_Y5_9
      [] n = Dec(5, 0) -> L_Girls
      [] n = Dec(6, 0) -> L_Boys
      [] n = Dec(7, 0) -> L_Repro
      [] OTHER -> <<>>

\* lines 333-336 for one value of the column; as_int: the coerced column is int64
\* line 335: the label of a coerced value, or <<>> (NaN) when the map has none
mapped(num) == IF num.kind = "num" THEN BENEFICIARY_MAP(num.n) ELSE <<>>
\* lines 335-336: the NaN of the map filled from the coerced column, as text
filled(num, label, as_int) ==
    IF label # <<>> THEN label
    ELSE IF num.kind = "num" THEN NumChars(num.n, as_int)
    ELSE <<"n","a","n">>
map_beneficiary(num, as_int) == Str(Title(filled(num, mapped(num), as_int)))
benificiery_of(v, as_int) == map_beneficiary(to_numeric(v), as_int)

\* lines 328-331 for one value of the incoming anemia_category column
cat_map(cs) ==
    CASE cs = CAT_Normal -> <<"n","o","r","m","a","l">>
      [] cs = CAT_Mild -> <<"m","i","l","d">>
      [] cs = CAT_Moderate -> <<"m","o","d","e","r","a","t","e">>
      [] cs = CAT_Severe -> <<"s","e","v","e","r","e">>
      [] OTHER -> <<>>
\* line 329: astype(str)
astype_str(v) ==
    CASE v.kind = "str" -> v.s
      [] v.kind = "none" -> <<"N","o","n","e">>
      [] OTHER -> <<"n","a","n">>
\* line 331: the mapped category, or the lower-cased text
map_category(text, label) == IF label # <<>> THEN label ELSE Lower(text)
category_text(text) == Str(map_category(text, cat_map(text)))
incoming_category_of(v) == category_text(Strip(astype_str(v)))

\* round(days / 365.25, 2): the nearest hundredth (36525 is odd, so there is no tie)
years_of_days(days) == ((2 * days * 10000 + 36525) \div (2 * 36525)) * Cent

\* lines 305-323 for one row: the age from the date of birth
age_from_dob(row, now) ==
    LET ref_date == IF isna(row.enrollment_date) THEN Day(now) ELSE row.enrollment_date
        x == years_of_days(ref_date.n - row.DOB.n)
    IN  IF isna(row.Age) /\ ~isna(row.DOB)
        THEN [row EXCEPT !.Age = IF 0 <= x /\ x < MaxAge * Scale THEN Num(x) ELSE None]
        ELSE row

\* lines 357-366: the two masks of the retention filter
has_age(row) == ~isna(row.Age)
has_beneficiary(row) ==
    /\ ~isna(row.Benificiery)
    /\ row.Benificiery.s # <<>>
    /\ Lower(row.Benificiery.s) # <<"n","a","n">>
    /\ Lower(row.Benificiery.s) # <<"n","o","n","e">>
\* a retention filter that asks for both an age and a beneficiary
retained_both(row) == has_age(row) /\ has_beneficiary(row)
\* line 368
retained(row) == has_age(row) \/ has_beneficiary(row)

\* df[has_age | has_beneficiary]: the rows retained, in order
RECURSIVE SelectRows(_)
SelectRows(rows) ==
    IF rows = <<>> THEN <<>>
    ELSE (IF retained(Head(rows)) THEN <<Head(rows)>> ELSE <<>>) \o SelectRows(Tail(rows))

\* lines 291-353: the table normalised and classified, before the retention filter
normalized(table, now) ==
    LET cols == table.cols
        has(c) == c \in cols
        ben_int == \A i \in 1..Len(table.rows) : IsIntLike(table.rows[i].Benificiery)
        area_int == \A i \in 1..Len(table.rows) : table.rows[i].Area_COde.kind = "num"
        \* lines 291-297: dates and hemoglobin
        step1(r) == [r EXCEPT
            !.enrollment_date = IF has("enrollment_date") THEN to_datetime(@) ELSE @,
            !.DOB = IF has("DOB") THEN to_datetime(@) ELSE @,
            !.HGB = IF has("HGB") THEN to_numeric(@) ELSE @]
        \* lines 299-303: the age field
        step2(r) == [r EXCEPT !.Age = IF has("Age") THEN parse_age(@) ELSE None]
        \* lines 305-323: the age from the date of birth
        step3(r) == IF has("DOB") THEN age_from_dob(r, now) ELSE r
        \* lines 325-336: the area code, the incoming category and the beneficiary
        step4(r) == [r EXCEPT
            !.Area_COde = IF has("Area_COde") THEN area_code_of(@, area_int) ELSE @,
            !.anemia_category = IF has("anemia_category") THEN incoming_category_of(@) ELSE @,
            !.Benificiery = IF has("Benificiery") THEN benificiery_of(@, ben_int) ELSE @]
        \* lines 341-353: the category, computed or None
        step5(r) == [r EXCEPT
            !.anemia_category =
                IF has("HGB")
                THEN classify_anemia_who(get(r.HGB), get(r.Age), get(r.Gender), get(r.Benificiery))
                ELSE PyNone]
    IN  [i \in 1..Len(table.rows) |-> step5(step4(step3(step2(step1(table.rows[i])))))]

\* what load_data returns: (df, status_message, is_error)
Loaded(records, status, is_error) ==
    [records |-> records, status |-> status, is_error |-> is_error]

load_data(fetch) ==
    CASE fetch.outcome = "connection_error" ->
            Loaded(<<>>, "Connection Error (Check DNS/Network)", TRUE)
      [] fetch.outcome = "timeout" -> Loaded(<<>>, "Request Timeout", TRUE)
      [] fetch.outcome = "error" -> Loaded(<<>>, "Script Error: <message>", TRUE)
      \* line 278: df.empty
      [] fetch.table.rows = <<>> -> Loaded(<<>>, "No Data in Script", TRUE)
      \* line 308: df["enrollment_date"] raises KeyError
      [] "DOB" \in fetch.table.cols /\ "enrollment_date" \notin fetch.table.cols ->
            Loaded(<<>>, "Script Error: 'enrollment_date'", TRUE)
      \* line 362: df["Benificiery"] raises KeyError
      [] "Benificiery" \notin fetch.table.cols -> Loaded(<<>>, "Script Error: 'Benificiery'", TRUE)
      [] OTHER -> Loaded(SelectRows(normalized(fetch.table, fetch.now)), "Live", FALSE)

\* the dict refresh_data returns into the store
Snapshot(res) ==
    [has_data |-> TRUE, records |-> res.records, status |-> res.status,
     is_error |-> res.is_error]
refresh_data(fetch) == Snapshot(load_data(fetch))

(***************************************************************************)
(* The tables fetched.                                                     *)
(***************************************************************************)
RawRow(hgb, age, dob, enr, gender, ben, cat, area, psu) ==
    [HGB |-> hgb, Age |-> age, DOB |-> dob, enrollment_date |-> enr, Gender |-> gender,
     Benificiery |-> ben, anemia_category |-> cat, Area_COde |-> area, PSU_Name |-> psu]

\* days: a birth, an enrollment 30 years later, "now" 31 years later, a later birth
BirthDay == 0 * 365
EnrollDay == 30 * 365 + 8
NowDay == 31 * 365 + 8
LaterDay == 32 * 365 + 8

\* area codes and village (PSU) names
Area1 == Num(Dec(1, 0))
Area2 == Num(Dec(2, 0))
V1 == Str(<<"H","o","s","u","r">>)
V2 == Str(<<"I","r","k","a","l">>)
V3 == Str(<<"K","i","n","n","a","l">>)

\* code 2, an age, 10.5 g/dL; a date of birth besides the age
RowCoded ==
    RawRow(Num(Dec(10, 500)), Str(S_2yr6m), Day(BirthDay), None, Str(S_Female), Num(Dec(2, 0)),
           Str(CAT_Normal), Area1, V1)
\* the same fields, the code as text and another incoming category
RowTextCode ==
    RawRow(Num(Dec(10, 500)), Str(S_2yr6m), Day(BirthDay), None, Str(S_Female), Str(<<"2">>),
           Str(CAT_Severe), Area1, V2)
\* code 2, no age, no hemoglobin
RowNoAge ==
    RawRow(None, None, None, None, Str(S_Female), Num(Dec(2, 0)), Str(CAT_Mild), Area2, V2)
\* no age, no beneficiary, a hemoglobin that is no number, a birth after "now"
RowDropped ==
    RawRow(Str(S_NA), None, Day(LaterDay), None, Str(S_Male), None, Str(CAT_Severe), Area2, None)
\* a spelled-out label, an age
RowLabel ==
    RawRow(Num(Dec(10, 500)), Num(Dec(30, 0)), None, None, Str(S_Male), Str(L_Pregnant),
           Str(CAT_Normal), Area2, V3)
\* an unmapped code, a lone birth year as age, the dates of birth and enrollment
RowUnmapped ==
    RawRow(Num(Dec(12, 500)), Str(S_1998), Day(BirthDay), Day(EnrollDay), Str(S_Male), Num(Dec(9, 0)),
           None, Area1, None)
\* a date as age, a date of birth and no enrollment date
RowDateAge ==
    RawRow(Num(Dec(12, 500)), Str(S_Date), Day(BirthDay), None, Str(S_Female), Num(Dec(7, 0)),
           Str(CAT_Mild), Area2, V1)

RawRows == {RowCoded, RowTextCode, RowNoAge, RowDropped, RowLabel, RowUnmapped, RowDateAge}

\* the column sets of the tables: every column, or one column missing
DroppedColumns == {"HGB", "Benificiery", "enrollment_date"}
ColumnSets == {Columns} \cup { Columns \ {c} : c \in DroppedColumns }

\* the table with the fields of its missing columns Absent
Shaped(cols, rows) ==
    [cols |-> cols,
     rows |-> [i \in 1..Len(rows) |->
                [c \in Columns |-> IF c \in cols THEN rows[i][c] ELSE Absent]]]

RECURSIVE SeqsUpTo(_, _)
SeqsUpTo(S, k) ==
    IF k = 0 THEN {<<>>}
    ELSE SeqsUpTo(S, k - 1) \cup { Append(q, x) : q \in { p \in SeqsUpTo(S, k - 1) : Len(p) = k - 1 }, x \in S }

NoTable == [cols |-> {}, rows |-> <<>>]
Fetch(outcome, table, now) == [outcome |-> outcome, table |-> table, now |-> now]
Fetches ==
    { Fetch("ok", Shaped(cols, rows), NowDay) : cols \in ColumnSets, rows \in SeqsUpTo(RawRows, MaxRows) }
    \cup { Fetch(o, NoTable, NowDay) : o \in {"connection_error", "timeout", "error"} }

(***************************************************************************)
(* update_dashboard (src/app.py lines 623-832).                            *)
(*                                                                         *)
(* A selection of a dropdown is the set of its values (empty: None or []). *)
(* The frames df_psu, df_area, ... are sets of row numbers of the records, *)
(* so that equal records are counted apart.                                *)
(***************************************************************************)
\* the characters in the order of their code points
CodePoints ==
    <<" ", "(", ")", "+", "-", ".", "/">> \o DigitChars \o <<"<", ">">> \o UpperAlpha \o LowerAlpha
CharCode(c) == CHOOSE i \in 1..Len(CodePoints) : CodePoints[i] = c

\* a < b for two strings
RECURSIVE StrLess(_, _)
StrLess(a, b) ==
    IF b = <<>> THEN FALSE
    ELSE IF a = <<>> THEN TRUE
    ELSE IF a[1] = b[1] THEN StrLess(Tail(a), Tail(b))
    ELSE CharCode(a[1]) < CharCode(b[1])

\* the least string of a set
least(S) == CHOOSE x \in S : \A y \in S \ {x} : StrLess(x, y)
\* sorted(S) for a set of strings
RECURSIVE sorted(_)
sorted(S) == IF S = {} THEN <<>> ELSE <<least(S)>> \o sorted(S \ {least(S)})

\* the categories in sorted order
SortedCategories == <<"incomplete", "mild", "moderate", "normal", "severe">>
\* x.lower() for a category or the label of one
lower_cat(x) ==
    CASE x = "Normal" -> "normal"
      [] x = "Mild" -> "mild"
      [] x = "Moderate" -> "moderate"
      [] x = "Severe" -> "severe"
      [] x = "Incomplete" -> "incomplete"
      [] OTHER -> x

\* Series.isin(selection) for one value of a text column
isin(v, selection) == v.kind = "str" /\ v.s \in selection
\* if selection: frame = frame[frame[col].isin(selection)]
where(frame, records, col, selection) ==
    IF selection = {} THEN frame ELSE { i \in frame : isin(records[i][col], selection) }
\* if anemia: frame = frame[frame["anemia_category"].isin(anemia)]
where_anemia(frame, records, anemia) ==
    IF anemia = {} THEN frame ELSE { i \in frame : records[i].anemia_category \in anemia }
\* line 694: the anemia filter of the final frame, case-insensitive
where_anemia_lower(frame, records, anemia) ==
    IF anemia = {} THEN frame
    ELSE { i \in frame : /\ records[i].anemia_category # PyNone
                         /\ lower_cat(records[i].anemia_category) \in { lower_cat(x) : x \in anemia } }
\* frame[col].dropna().unique()
unique(frame, records, col) ==
    { records[i][col].s : i \in { j \in frame : records[j][col].kind = "str" } }

df_full(records) == 1..Len(records)

\* a click on the map selects the village, a PSU or not
map_click_unchecked(records, psu, triggered_id, clickData) ==
    IF triggered_id = "map" /\ clickData # <<>> THEN {clickData} ELSE psu
\* lines 641-645: a click on the map selects the village when it is a PSU
map_click(records, psu, triggered_id, clickData) ==
    IF /\ triggered_id = "map"
       /\ clickData # <<>>
       /\ \E i \in df_full(records) : isin(records[i].PSU_Name, {clickData})
    THEN {clickData}
    ELSE psu

\* lines 653-657
df_psu(records, area, benificiery, anemia) ==
    where_anemia(where(where(df_full(records), records, "Area_COde", area),
                       records, "Benificiery", benificiery), records, anemia)
psu_opts(records, area, benificiery, anemia) ==
    sorted(unique(df_psu(records, area, benificiery, anemia), records, "PSU_Name"))

\* a selection kept as it is, whatever the options
valid_psus_unchecked(psu, opts) == psu
\* lines 660-662: the selected PSUs that are still options
valid_psus(psu, opts) == { x \in psu : \E k \in 1..Len(opts) : opts[k] = x }

\* the area options taken from the whole snapshot
df_area_unfiltered(records, psu, benificiery, anemia) == df_full(records)
\* lines 665-669
df_area(records, psu, benificiery, anemia) ==
    where_anemia(where(where(df_full(records), records, "PSU_Name", psu),
                       records, "Benificiery", benificiery), records, anemia)
area_opts(records, psu, benificiery, anemia) ==
    sorted(unique(df_area(records, psu, benificiery, anemia), records, "Area_COde"))

\* the beneficiary options taken from the whole snapshot
df_benif_unfiltered(records, psu, area, anemia) == df_full(records)
\* lines 672-676
df_benif(records, psu, area, anemia) ==
    where_anemia(where(where(df_full(records), records, "Area_COde", area),
                       records, "PSU_Name", psu), records, anemia)
benif_opts(records, psu, area, anemia) ==
    sorted(unique(df_benif(records, psu, area, anemia), records, "Benificiery"))

\* lines 679-685
df_anemia_opts(records, psu, area, benificiery) ==
    where(where(where(df_full(records), records, "Area_COde", area),
                records, "PSU_Name", psu), records, "Benificiery", benificiery)
anemia_opts_of(frame, records) ==
    SelectSeq(SortedCategories, LAMBDA c : \E i \in frame : records[i].anemia_category = c)
anemia_opts(records, psu, area, benificiery) ==
    anemia_opts_of(df_anemia_opts(records, psu, area, benificiery), records)

\* the final frame with the filters of three dimensions only
df_three(records, psu, area, benificiery, anemia) ==
    where(where(where(df_full(records), records, "PSU_Name", psu),
                records, "Area_COde", area), records, "Benificiery", benificiery)
\* lines 688-694: the final frame
df(records, psu, area, benificiery, anemia) ==
    where_anemia_lower(where(where(where(df_full(records), records, "PSU_Name", psu),
                                   records, "Area_COde", area),
                             records, "Benificiery", benificiery), records, anemia)

\* lines 651-694: the final frame of a call the dropdowns trigger
final_frame(records, psu, area, benificiery, anemia) ==
    df(records, valid_psus(psu, psu_opts(records, area, benificiery, anemia)),
       area, benificiery, anemia)

\* (frame["anemia_category"] == cat).sum()
count_of(frame, records, cat) == Cardinality({ i \in frame : records[i].anemia_category = cat })

\* the sum of the numbers a function gives over a set
RECURSIVE SumOver(_, _)
SumOver(S, f) ==
    IF S = {} THEN 0
    ELSE (f[CHOOSE x \in S : TRUE]) + SumOver(S \ {CHOOSE x \in S : TRUE}, f)
\* the quotient a / b rounded to the nearest multiple of unit (a >= 0, b > 0)
round_div(a, b, unit) == ((2 * a + unit * b) \div (2 * unit * b)) * unit
\* the rows of the frame that have a hemoglobin
with_hgb(frame, records) == { i \in frame : records[i].HGB.kind = "num" }
mean_of(rows, records) ==
    IF rows = {} THEN NaN
    ELSE Num(round_div(SumOver(rows, [i \in rows |-> records[i].HGB.n]), Cardinality(rows), Cent))
\* line 701: round(df["HGB"].mean(), 2), 0 for an empty frame
avg_hgb(frame, records) == IF frame = {} THEN Num(0) ELSE mean_of(with_hgb(frame, records), records)
\* line 702: the prevalence in tenths of a percent (round(..., 1)), 0 for an empty frame
prevalence_of(cases, total) == IF total > 0 THEN round_div(1000 * cases, total, 1) ELSE 0
prevalence(frame, records) ==
    prevalence_of(count_of(frame, records, "mild") + count_of(frame, records, "moderate")
                    + count_of(frame, records, "severe"), Cardinality(frame))

\* lines 742-751
Months == <<" ","M","o","n","t","h","s">>
B_Unknown == <<"U","n","k","n","o","w","n">>
B_1_4 == <<"1","-","4"," ","Y","e","a","r","s">>
B_5_9 == <<"5","-","9"," ","Y","e","a","r","s">>
B_10_17 == <<"1","0","-","1","7"," ","Y","e","a","r","s">>
B_18_29 == <<"1","8","-","2","9"," ","Y","e","a","r","s">>
B_30_39 == <<"3","0","-","3","9"," ","Y","e","a","r","s">>
B_40_49 == <<"4","0","-","4","9"," ","Y","e","a","r","s">>
B_50 == <<"5","0","+"," ","Y","e","a","r","s">>
get_age_bucket(age) ==
    IF isna(age) \/ age.kind # "num" THEN B_Unknown
    ELSE IF age.n < Dec(1, 0) THEN IntChars((age.n + 500) \div 1000) \o Months
    ELSE IF age.n < Dec(5, 0) THEN B_1_4
    ELSE IF age.n <= Dec(9, 0) THEN B_5_9
    ELSE IF age.n < Dec(18, 0) THEN B_10_17
    ELSE IF age.n < Dec(30, 0) THEN B_18_29
    ELSE IF age.n < Dec(40, 0) THEN B_30_39
    ELSE IF age.n < Dec(50, 0) THEN B_40_49
    ELSE B_50

\* the least row of a set of rows
first_row(rows) == CHOOSE i \in rows : \A j \in rows : i <= j
\* the key Series.value_counts() lists first: the most frequent, the one met
\* first among equally frequent ones
most_frequent(keys, rowsOf) ==
    CHOOSE k \in keys : \A o \in keys \ {k} :
        \/ Cardinality(rowsOf[k]) > Cardinality(rowsOf[o])
        \/ /\ Cardinality(rowsOf[k]) = Cardinality(rowsOf[o])
           /\ first_row(rowsOf[k]) < first_row(rowsOf[o])
\* Series.value_counts(): <<key, count>> by falling count
RECURSIVE value_counts(_, _)
value_counts(keys, rowsOf) ==
    IF keys = {} THEN <<>>
    ELSE <<<<most_frequent(keys, rowsOf), Cardinality(rowsOf[most_frequent(keys, rowsOf)])>>>>
            \o value_counts(keys \ {most_frequent(keys, rowsOf)}, rowsOf)
\* the same sorted by key: value_counts().sort_index()
RECURSIVE value_counts_sorted(_, _)
value_counts_sorted(keys, rowsOf) ==
    IF keys = {} THEN <<>>
    ELSE <<<<least(keys), Cardinality(rowsOf[least(keys)])>>>>
            \o value_counts_sorted(keys \ {least(keys)}, rowsOf)

\* line 753: df["Benificiery"].value_counts().sort_index()
benif_rows(frame, records) ==
    [b \in unique(frame, records, "Benificiery") |-> { i \in frame : records[i].Benificiery.s = b }]
benif_counts(frame, records) ==
    value_counts_sorted(unique(frame, records, "Benificiery"), benif_rows(frame, records))
\* lines 756-757: the age buckets of the rows of one beneficiary group
bucket_rows(sub, records) ==
    [b \in { get_age_bucket(records[i].Age) : i \in sub } |->
        { i \in sub : get_age_bucket(records[i].Age) = b }]
buckets(sub, records) ==
    value_counts({ get_age_bucket(records[i].Age) : i \in sub }, bucket_rows(sub, records))
\* lines 754-760: one list of buckets per beneficiary group
age_hover_of(counts, frame, records) ==
    [g \in 1..Len(counts) |->
        buckets({ i \in frame : records[i].Benificiery.s = counts[g][1] }, records)]
age_hover_data(frame, records) == age_hover_of(benif_counts(frame, records), frame, records)
\* line 798: the index of df.groupby(["Area COde", "anemia_category"]).size().unstack()
area_anemia(frame, records) ==
    sorted(unique({ i \in frame : records[i].anemia_category # PyNone }, records, "Area_COde"))

\* the records of a frame, in row order
RECURSIVE rows_of(_, _)
rows_of(frame, records) ==
    IF frame = {} THEN <<>>
    ELSE <<records[first_row(frame)]>> \o rows_of(frame \ {first_row(frame)}, records)

\* lines 625 and 633: the outputs without data
NoOutputs ==
    [kind |-> "empty", total |-> 0, normal |-> 0, mild |-> 0, moderate |-> 0, severe |-> 0,
     avg_hgb |-> Num(0), prevalence |-> 0, table |-> <<>>,
     area_opts |-> <<>>, psu_opts |-> <<>>, benif_opts |-> <<>>, anemia_opts |-> <<>>, psu |-> {},
     benif_counts |-> <<>>, age_hover_data |-> <<>>, area_anemia |-> <<>>]
\* the callback raises: no output is updated
RaisedOutputs == [NoOutputs EXCEPT !.kind = "raised"]

\* lines 696-832 on the final frame
outputs(records, frame, psu, p_opts, a_opts, b_opts, an_opts) ==
    \* line 701: df["HGB"] of a snapshot without the HGB column raises KeyError
    IF frame # {} /\ records[1].HGB = Absent THEN RaisedOutputs
    ELSE [kind |-> "ok",
          total |-> Cardinality(frame),
          normal |-> count_of(frame, records, "normal"),
          mild |-> count_of(frame, records, "mild"),
          moderate |-> count_of(frame, records, "moderate"),
          severe |-> count_of(frame, records, "severe"),
          avg_hgb |-> avg_hgb(frame, records),
          prevalence |-> prevalence(frame, records),
          table |-> rows_of(frame, records),
          area_opts |-> a_opts, psu_opts |-> p_opts, benif_opts |-> b_opts,
          anemia_opts |-> an_opts, psu |-> psu,
          benif_counts |-> benif_counts(frame, records),
          age_hover_data |-> age_hover_data(frame, records),
          area_anemia |-> area_anemia(frame, records)]

\* lines 664-694, the PSU selection cleaned
cascade(records, psu, p_opts, area, benificiery, anemia) ==
    outputs(records, df(records, psu, area, benificiery, anemia), psu, p_opts,
            area_opts(records, psu, benificiery, anemia),
            benif_opts(records, psu, area, anemia),
            anemia_opts(records, psu, area, benificiery))
\* lines 651-662
clean_psu(records, psu, p_opts, area, benificiery, anemia) ==
    cascade(records, valid_psus(psu, p_opts), p_opts, area, benificiery, anemia)
\* lines 635-657
on_records(records, psu, area, benificiery, anemia) ==
    clean_psu(records, psu, psu_opts(records, area, benificiery, anemia), area, benificiery, anemia)

update_dashboard(stored_dict, psu, area, benificiery, anemia, triggered_id, clickData) ==
    IF ~stored_dict.has_data THEN NoOutputs
    ELSE IF stored_dict.records = <<>> /\ stored_dict.is_error THEN NoOutputs
    \* pd.DataFrame([]) has no column: df_full["PSU Name"] raises KeyError
    ELSE IF stored_dict.records = <<>> THEN RaisedOutputs
    ELSE on_records(stored_dict.records,
                    map_click(stored_dict.records, psu, triggered_id, clickData),
                    area, benificiery, anemia)

\* the rows of the tables of the dashboard runs
MaxSnap == 3
DashRows == {RowCoded, RowNoAge, RowDropped, RowLabel, RowUnmapped}
DashFetches ==
    { Fetch("ok", Shaped(cols, rows), NowDay) :
        cols \in {Columns, Columns \ {"HGB"}}, rows \in SeqsUpTo(DashRows, MaxSnap) }
    \cup {Fetch("error", NoTable, NowDay)}

\* the selections of the dropdowns and the clicks on the map
PsuSelections == {{}, {V1.s}, {V3.s}, {V1.s, V3.s}}
AreaSelections == {{}, {<<"0","0","1">>}, {<<"0","0","2">>}}
BenificierySelections == {{}, {L_Pregnant}}
AnemiaSelections == {{}, {"mild"}, {"Mild"}}
Triggers == {<<"psu-dropdown", <<>>>>, <<"interval", V1.s>>, <<"map", V1.s>>, <<"map", V2.s>>}

(***************************************************************************)
(* State.                                                                  *)
(***************************************************************************)
VARIABLES
    ageSrc,     \* the shape of the age under test
    ageArg,     \* the age given to parse_age
    ageRes,     \* the results of the successive applications of parse_age
    cArgs,      \* the arguments given to classify_anemia_who
    cRes,       \* what classify_anemia_who returned: <<>> before the call
    raw,        \* the last fetch: its outcome, the table fetched, the time
    stored,     \* the "stored-data" store: what refresh_data returned last
    call,       \* the inputs of the last call of update_dashboard
    dash        \* what that call returned

vars == <<ageSrc, ageArg, ageRes, cArgs, cRes, raw, stored, call, dash>>
loadVars == <<raw, stored>>
dashVars == <<call, dash>>
ageVars == <<ageSrc, ageArg, ageRes>>
cVars == <<cArgs, cRes>>

NoShape == AgeShape("value", NoPart, NoPart, NoPart, NoPart, NoPart, "-", None)
NoArgs == [hgb |-> None, age |-> None, gender |-> None, beneficiary |-> None]
IdleAge == ageSrc = NoShape /\ ageArg = None /\ ageRes = <<>>
IdleClassify == cArgs = NoArgs /\ cRes = <<>>
NoFetch == Fetch("none", NoTable, NowDay)
NoData == [has_data |-> FALSE, records |-> <<>>, status |-> "", is_error |-> FALSE]
IdleLoad == raw = NoFetch /\ stored = NoData
Call(stored_dict, psu, area, benificiery, anemia, triggered_id, clickData) ==
    [stored_dict |-> stored_dict, psu |-> psu, area |-> area, benificiery |-> benificiery,
     anemia |-> anemia, triggered_id |-> triggered_id, clickData |-> clickData]
NoCall == Call(NoData, {}, {}, {}, {}, "", <<>>)
NoDash == [NoOutputs EXCEPT !.kind = "none"]
IdleDash == call = NoCall /\ dash = NoDash
\* the calls update_dashboard can get on a store
CallsOn(stored_dict) ==
    { Call(stored_dict, psu, area, benificiery, anemia, t[1], t[2]) :
        psu \in PsuSelections, area \in AreaSelections, benificiery \in BenificierySelections,
        anemia \in AnemiaSelections, t \in Triggers }

InitAge ==
    /\ ageSrc \in AgeShapes
    /\ ageArg = AgeValue(ageSrc)
    /\ ageRes = <<>>
    /\ IdleClassify
    /\ IdleLoad
    /\ IdleDash

\* parse_age applied to the age, then to its own result
ParseAge ==
    /\ Len(ageRes) < MaxApply
    /\ ageRes' = Append(ageRes, parse_age(IF ageRes = <<>> THEN ageArg ELSE ageRes[Len(ageRes)]))
    /\ UNCHANGED <<ageSrc, ageArg, cVars, loadVars, dashVars>>

NextAge == ParseAge

SpecAge == InitAge /\ [][NextAge]_vars

InitClassify ==
    /\ cArgs \in [hgb : HgbInputs, age : AgeInputs, gender : GenderInputs, beneficiary : BenInputs]
    /\ cRes = <<>>
    /\ IdleAge
    /\ IdleLoad
    /\ IdleDash

\* one call of classify_anemia_who
Classify ==
    /\ cRes = <<>>
    /\ cRes' = <<classify_anemia_who(cArgs.hgb, cArgs.age, cArgs.gender, cArgs.beneficiary)>>
    /\ UNCHANGED <<cArgs, ageVars, loadVars, dashVars>>

NextClassify == Classify

SpecClassify == InitClassify /\ [][NextClassify]_vars

\* refresh_data of every fetch
Refreshed == [fetch \in Fetches |-> refresh_data(fetch)]

Init ==
    /\ IdleLoad
    /\ IdleAge
    /\ IdleClassify
    /\ IdleDash

\* the interval fires: refresh_data fetches, normalises and stores
Refresh ==
    /\ raw' \in Fetches
    /\ stored' = Refreshed[raw']
    /\ UNCHANGED <<ageVars, cVars, dashVars>>

Next == Refresh

Spec == Init /\ [][Next]_vars

\* refresh_data of every fetch of the dashboard runs
DashRefreshed == [fetch \in DashFetches |-> refresh_data(fetch)]

\* the first firing of the interval
RefreshOnce ==
    /\ raw = NoFetch
    /\ raw' \in DashFetches
    /\ stored' = DashRefreshed[raw']
    /\ UNCHANGED <<ageVars, cVars, dashVars>>

\* update_dashboard called on the store
called(c) ==
    update_dashboard(c.stored_dict, c.psu, c.area, c.benificiery, c.anemia,
                     c.triggered_id, c.clickData)
\* the values of the dropdowns and the map change, or the store does:
\* update_dashboard runs on them
UpdateDashboard ==
    /\ call = NoCall
    /\ call' \in CallsOn(stored)
    /\ dash' = called(call')
    /\ UNCHANGED <<ageVars, cVars, loadVars>>

NextDash == RefreshOnce \/ UpdateDashboard

SpecDash == Init /\ [][NextDash]_vars

(***************************************************************************)
(* Claims about classify_anemia_who, under SpecClassify.                   *)
(***************************************************************************)
\* the text reads as a number
IsNumericText(cs) == FloatOfStr(cs).kind = "num"
\* a hemoglobin that is missing or cannot be coerced to a number
HgbUnusable(h) == h.kind \in {"none", "nan"} \/ (h.kind = "str" /\ ~IsNumericText(h.s))
\* a hemoglobin that is a number, or text that reads as one
HgbNumeric(h) == h.kind = "num" \/ (h.kind = "str" /\ IsNumericText(h.s))
HgbNumber(h) == IF h.kind = "num" THEN h.n ELSE FloatOfStr(h.s).n
\* no usable age: None, NaN, or text that is no number
AgeAbsent(a) == a.kind \in {"none", "nan"} \/ (a.kind = "str" /\ ~IsNumericText(a.s))
\* the text of a field, lower-cased; empty for a missing field
FieldText(x) == IF x.kind = "str" THEN Lower(x.s) ELSE <<>>
\* one of the six beneficiary rules applies
RuleMatches(gender, beneficiary) ==
    LET b == FieldText(beneficiary)
        g == FieldText(gender)
    IN  \/ Contains(b, PREGNANT)
        \/ Contains(b, M5_9)
        \/ Contains(b, Y5_9) \/ Contains(b, M60)
        \/ Contains(b, ADOL_GIRLS) \/ (Contains(b, ADOLESCENT) /\ Contains(g, FEMALE))
        \/ Contains(b, ADOL_BOYS) \/ (Contains(b, ADOLESCENT) /\ Contains(g, MALE))
        \/ Contains(b, REPRO_AGE)

\* C1: when the hemoglobin is missing (None, NaN) or cannot be coerced to a
\* number, classify_anemia_who returns "incomplete", whatever the age, the
\* gender and the beneficiary category are.
C1_MissingHgbIsIncomplete ==
    (cRes # <<>> /\ HgbUnusable(cArgs.hgb)) => cRes[1] = "incomplete"

\* C1 witness: no hemoglobin, a pregnant beneficiary and an age: incomplete.
C1_Witness ==
    /\ cRes = <<"incomplete">>
    /\ cArgs.hgb = None
    /\ cArgs.beneficiary = Str(L_Pregnant)
    /\ cArgs.age = Num(Dec(30, 0))

\* C3: with a numeric hemoglobin the result is "incomplete" exactly when no
\* beneficiary rule matches and the age is absent; in every other case it is
\* one of normal, mild, moderate, severe.
C3_IncompleteIffNoTable ==
    (cRes # <<>> /\ HgbNumeric(cArgs.hgb)) =>
        /\ cRes[1] \in anemia_list
        /\ cRes[1] = "incomplete"
             <=> (~RuleMatches(cArgs.gender, cArgs.beneficiary) /\ AgeAbsent(cArgs.age))

\* C3 witness: an age, an unknown gender and no beneficiary rule: classified.
C3_Witness ==
    /\ cRes = <<"moderate">>
    /\ cArgs.hgb = Num(Dec(10, 500))
    /\ cArgs.beneficiary = Str(S_Elderly)
    /\ cArgs.gender = Str(S_Other)
    /\ cArgs.age = Num(Dec(30, 0))

\* C4: a beneficiary category that contains "pregnant" (in any case) and a
\* numeric hemoglobin h give normal for h >= 11.0, mild for 10.0 <= h < 11.0,
\* moderate for 7.0 <= h < 10.0 and severe for h < 7.0, whatever the age and
\* the gender are.
C4_PregnantTable ==
    (/\ cRes # <<>>
     /\ HgbNumeric(cArgs.hgb)
     /\ Contains(FieldText(cArgs.beneficiary), PREGNANT)) =>
        LET h == HgbNumber(cArgs.hgb)
        IN  cRes[1] = IF h >= Dec(11, 0) THEN "normal"
                      ELSE IF h >= Dec(10, 0) THEN "mild"
                      ELSE IF h >= Dec(7, 0) THEN "moderate"
                      ELSE "severe"

\* C4 witness: pregnant, 11.0 g/dL, a man of 30: normal by the pregnant table
\* (the male table for adults would give mild).
C4_Witness ==
    /\ cRes = <<"normal">>
    /\ cArgs.hgb = Num(Dec(11, 0))
    /\ cArgs.beneficiary = Str(S_PREGNANT_woman)
    /\ cArgs.gender = Str(S_Male)
    /\ cArgs.age = Num(Dec(30, 0))

\* the grade of hemoglobin h under the thresholds n, mi, mo
Graded(h, n, mi, mo) ==
    IF h >= n THEN "normal" ELSE IF h >= mi THEN "mild" ELSE IF h >= mo THEN "moderate" ELSE "severe"
\* the number an age that is present stands for
AgeNumber(a) == IF a.kind = "num" THEN a.n ELSE FloatOfStr(a.s).n
\* the gender string as the classifier reads it
GenderText(g) == IF g.kind = "str" THEN Strip(Lower(g.s)) ELSE <<>>
\* the age-band fallback applies: numeric hemoglobin, no rule, an age
ByAgeCase ==
    /\ cRes # <<>>
    /\ HgbNumeric(cArgs.hgb)
    /\ ~RuleMatches(cArgs.gender, cArgs.beneficiary)
    /\ ~AgeAbsent(cArgs.age)
\* the category by age band, the male table used when UseMale
ByAgeBand(UseMale) ==
    LET h == HgbNumber(cArgs.hgb)
        a == AgeNumber(cArgs.age)
    IN  IF a < Dec(5, 0) THEN Graded(h, Dec(11, 0), Dec(10, 0), Dec(7, 0))
        ELSE IF a < Dec(12, 0) THEN Graded(h, Dec(11, 500), Dec(11, 0), Dec(8, 0))
        ELSE IF UseMale THEN Graded(h, Dec(13, 0), Dec(11, 0), Dec(8, 0))
        ELSE Graded(h, Dec(12, 0), Dec(11, 0), Dec(8, 0))

\* C17 as stated: with a numeric hemoglobin, no beneficiary rule and an age,
\* Table A is used below 5, Table B from 5 below 12, and from 12 on the male
\* Table C exactly when the gender string contains "male", the female Table C
\* for every other gender string.
C17_AgeBandTables ==
    ByAgeCase => cRes[1] = ByAgeBand(Contains(GenderText(cArgs.gender), MALE))

\* C17 amended: as C17, the male Table C being used exactly when the gender
\* string does not contain "female", is not "f", and contains "male" or is "m".
C17_AgeBandTablesAmended ==
    ByAgeCase =>
        cRes[1] = ByAgeBand(/\ ~Contains(GenderText(cArgs.gender), FEMALE)
                            /\ GenderText(cArgs.gender) # <<"f">>
                            /\ \/ Contains(GenderText(cArgs.gender), MALE)
                               \/ GenderText(cArgs.gender) = <<"m">>)

\* C17 witness: a woman of 30 with 12.9 g/dL and no beneficiary rule is normal
\* by the female table (the male table would give mild).
C17_Witness ==
    /\ cRes = <<"normal">>
    /\ cArgs.hgb = Num(Dec(12, 900))
    /\ cArgs.beneficiary = Str(S_Elderly)
    /\ cArgs.gender = Str(S_Female)
    /\ cArgs.age = Num(Dec(30, 0))

(***************************************************************************)
(* Claims about parse_age, under SpecAge.                                  *)
(***************************************************************************)
\* C8: parse_age returns null or a number strictly between 0 and 150.
\* (Violated: a number, or a numeric string, that is zero or negative is returned.)
C8_AgeInOpenRange ==
    \A i \in 1..Len(ageRes) :
        \/ ageRes[i] = None
        \/ (ageRes[i].kind = "num" /\ 0 < ageRes[i].n /\ ageRes[i].n < MaxAge * Scale)

\* C9: parse_age is idempotent: applied to its own result it returns that result.
C9_Idempotent ==
    \A i \in 2..Len(ageRes) : ageRes[i] = ageRes[i - 1]

\* C9 witness: "2 yr 6 m" resolves to 2.5, and 2.5 resolves to 2.5.
C9_Witness ==
    /\ ageArg = Str(<<"2"," ","y","r"," ","6"," ","m">>)
    /\ Len(ageRes) >= 2
    /\ ageRes[1] = Num(Dec(2, 500))
    /\ ageRes[2] = Num(Dec(2, 500))

\* the years and months numbers of a shape, a birth year counted as 0
ShapeYears(sh) ==
    LET y == IF sh.y = NoPart THEN 0 ELSE FloatOfStr(sh.y).n
    IN  IF y > BirthYear * Scale THEN 0 ELSE y
ShapeMonths(sh) == IF sh.m = NoPart THEN 0 ELSE FloatOfStr(sh.m).n
\* Y + M/12 rounded to 2 decimals
ShapeAge(sh) == Round2(ShapeYears(sh) + (ShapeMonths(sh) \div 12))
InOpenRange(x) == 0 < x /\ x < MaxAge * Scale
\* the shape is a string that is one number
IsBareNumber(sh) ==
    sh.form = "value" /\ sh.val.kind = "str" /\ IsNumericText(sh.val.s)
\* the shape is a years number and the unit "yr", nothing else
IsYrOnly(sh) == sh.form = "y" /\ Lower(sh.yu) = <<"y","r">>

\* C10 as stated: a string of a years and / or a months number with unit tokens
\* resolves to Y + M/12 rounded to 2 decimals when that lies strictly between
\* 0 and 150, a years number above 1900 counted as 0; a bare numeric string
\* below 150 resolves to that number.
C10_UnitStringAge ==
    ageRes # <<>> =>
        /\ (ageSrc.form \in {"y", "m", "ym"} /\ InOpenRange(ShapeAge(ageSrc)))
              => ageRes[1] = Num(ShapeAge(ageSrc))
        /\ (IsBareNumber(ageSrc) /\ FloatOfStr(ageSrc.val.s).n < MaxAge * Scale)
              => ageRes[1] = FloatOfStr(ageSrc.val.s)

\* C10 amended: as C10, except that a years number followed by the unit "yr"
\* alone resolves to that number as written (not rounded), when below 150.
C10_UnitStringAgeAmended ==
    ageRes # <<>> =>
        /\ (ageSrc.form \in {"y", "m", "ym"} /\ ~IsYrOnly(ageSrc) /\ InOpenRange(ShapeAge(ageSrc)))
              => ageRes[1] = Num(ShapeAge(ageSrc))
        /\ (IsYrOnly(ageSrc) /\ FloatOfStr(ageSrc.y).n < MaxAge * Scale)
              => ageRes[1] = FloatOfStr(ageSrc.y)
        /\ (IsBareNumber(ageSrc) /\ FloatOfStr(ageSrc.val.s).n < MaxAge * Scale)
              => ageRes[1] = FloatOfStr(ageSrc.val.s)

\* C10 witness: "1998 yr 6 m" resolves to 0.5, the birth year counted as 0.
C10_Witness ==
    /\ ageArg = Str(<<"1","9","9","8"," ","y","r"," ","6"," ","m">>)
    /\ ageRes # <<>>
    /\ ageRes[1] = Num(Dec(0, 500))

(***************************************************************************)
(* Claims about load_data, checked under Spec.                             *)
(***************************************************************************)
\* the last refresh was a successful load
Successful == raw.outcome = "ok" /\ stored.has_data /\ ~stored.is_error
\* the rows of the last fetch, normalised and classified, before the filter
NormalizedRows == normalized(raw.table, raw.now)
\* a field that is missing, whatever marks it
Null(v) == IF isna(get(v)) THEN None ELSE v

\* C2: after a successful load_data every record of the working set has an
\* anemia_category that is one of normal, mild, moderate, severe, incomplete,
\* for every shape of table, one without an HGB column included.
C2_CategoryInEnum ==
    Successful =>
        \A i \in 1..Len(stored.records) : stored.records[i].anemia_category \in anemia_list

\* two records agree on normalized hemoglobin, age, gender and beneficiary
SameFields(r, q) ==
    /\ Null(r.HGB) = Null(q.HGB)
    /\ Null(r.Age) = Null(q.Age)
    /\ Null(r.Gender) = Null(q.Gender)
    /\ Null(r.Benificiery) = Null(q.Benificiery)

\* C5: the anemia_category load_data assigns is a function of the normalized
\* hemoglobin, age, gender and beneficiary only: two records that agree on
\* those four, in one refresh or in two successive refreshes, have the same
\* category, whatever the incoming anemia_category column held.
C5_CategoryFunctionOfFields ==
    [][\A j \in 1..Len(stored'.records) :
          /\ \A i \in 1..Len(stored.records) :
                SameFields(stored.records[i], stored'.records[j])
                    => stored.records[i].anemia_category = stored'.records[j].anemia_category
          /\ \A k \in 1..Len(stored'.records) :
                SameFields(stored'.records[k], stored'.records[j])
                    => stored'.records[k].anemia_category = stored'.records[j].anemia_category]_vars

\* a resolved age: a number
AgeResolved(r) == r.Age.kind = "num"
\* a resolved beneficiary category: text that is not empty, "nan" or "none"
BeneficiaryResolved(r) ==
    /\ r.Benificiery.kind = "str"
    /\ Lower(r.Benificiery.s) \notin {<<>>, <<"n","a","n">>, <<"n","o","n","e">>}
\* the rows of the last fetch with a resolved age or beneficiary
Kept == { i \in 1..Len(NormalizedRows) :
            AgeResolved(NormalizedRows[i]) \/ BeneficiaryResolved(NormalizedRows[i]) }

IsMappedCode(b) == to_numeric(b).kind = "num" /\ BENEFICIARY_MAP(to_numeric(b).n) # <<>>

\* C7: a raw beneficiary that coerces to one of the codes 2..7 becomes the
\* label of the code; every other raw value, an unmapped number or text that
\* is no number, passes through with its content (title-cased), and is the
\* value the classifier and the retention filter see.
C7_BeneficiaryNormalized ==
    Successful =>
        \A i \in 1..Len(raw.table.rows) :
            LET b == raw.table.rows[i].Benificiery
                n == NormalizedRows[i]
            IN  b.kind \in {"num", "str"} =>
                  /\ IsMappedCode(b) => n.Benificiery = Str(BENEFICIARY_MAP(to_numeric(b).n))
                  /\ (~IsMappedCode(b) /\ to_numeric(b).kind = "num")
                        => to_numeric(n.Benificiery) = to_numeric(b)
                  /\ (to_numeric(b).kind # "num") => n.Benificiery = Str(Title(b.s))
                  /\ \E k \in 1..Len(stored.records) : stored.records[k] = n
                  /\ "HGB" \in raw.table.cols =>
                        n.anemia_category =
                            classify_anemia_who(get(n.HGB), get(n.Age), get(n.Gender),
                                IF IsMappedCode(b) THEN Str(BENEFICIARY_MAP(to_numeric(b).n))
                                ELSE IF b.kind = "str" THEN Str(Title(b.s))
                                ELSE n.Benificiery)

\* the fetch brought a table with rows and with the Benificiery column the
\* retention filter reads
TableFetched ==
    raw.outcome = "ok" /\ raw.table.rows # <<>> /\ "Benificiery" \in raw.table.cols
\* what parse_age makes of the age field of row i (None without an Age column)
ParsedAge(i) ==
    IF "Age" \in raw.table.cols THEN parse_age(raw.table.rows[i].Age) ELSE None
\* row i has a date of birth
HasBirthDate(i) == raw.table.rows[i].DOB.kind = "date"
\* the reference date of row i: its enrollment date, or the current time
ReferenceDay(i) ==
    IF raw.table.rows[i].enrollment_date.kind = "date"
    THEN raw.table.rows[i].enrollment_date.n
    ELSE raw.now
\* (reference date - date of birth) in days / 365.25, rounded to 2 decimals
BirthAge(i) == years_of_days(ReferenceDay(i) - raw.table.rows[i].DOB.n)
\* the age the record of row i is to have
ExpectedAge(i) ==
    IF ~isna(ParsedAge(i)) THEN ParsedAge(i)
    ELSE IF HasBirthDate(i) /\ 0 <= BirthAge(i) /\ BirthAge(i) < MaxAge * Scale
         THEN Num(BirthAge(i))
         ELSE None
\* the record of row i is in the working set
InWorkingSet(i) == \E k \in 1..Len(stored.records) : stored.records[k] = NormalizedRows[i]

\* an age text that is date-shaped, or a lone birth year
IsDateShaped(v) == v.kind = "str" /\ DateLike(Lower(Strip(v.s)))
IsLoneBirthYear(v) ==
    /\ v.kind = "str"
    /\ AllDigits(Strip(v.s))
    /\ Len(Strip(v.s)) = 4
    /\ DigitsVal(Strip(v.s)) > BirthYear

\* C11: parse_age gives null for a date-shaped age string and for a lone birth
\* year; load_data then resolves the age of such a record from its date of
\* birth when it has one.
C11_DateOrBirthYearAge ==
    (raw.outcome = "ok" /\ "Age" \in raw.table.cols) =>
        \A i \in 1..Len(raw.table.rows) :
            (IsDateShaped(raw.table.rows[i].Age) \/ IsLoneBirthYear(raw.table.rows[i].Age)) =>
                /\ parse_age(raw.table.rows[i].Age) = None
                /\ (TableFetched /\ HasBirthDate(i) /\ ~isna(ExpectedAge(i))) =>
                      /\ ~stored.is_error
                      /\ NormalizedRows[i].Age = Num(BirthAge(i))
                      /\ InWorkingSet(i)

\* C18: a record whose age field does not resolve and that has a date of birth
\* gets the age (reference date - date of birth) / 365.25 rounded to 2
\* decimals, kept only within [0, 150); the reference date is the enrollment
\* date, or the current time when the row or the whole table has none; a
\* resolved age field is kept; a missing enrollment date never fails the load.
C18_AgeFromBirthDate ==
    TableFetched =>
        /\ ~stored.is_error
        /\ \A i \in 1..Len(raw.table.rows) :
              /\ NormalizedRows[i].Age = ExpectedAge(i)
              /\ ~isna(ExpectedAge(i)) => InWorkingSet(i)

\* the record is fully normalised and classified
FullyNormalized(r) ==
    /\ r.Age.kind \in {"none", "num"}
    /\ r.Benificiery.kind = "str"
    /\ r.Area_COde.kind = "str"
    /\ r.anemia_category \in anemia_list

\* C16: what a refresh exposes is either a complete snapshot, holding every
\* row that passes the retention rule, each fully normalised and classified,
\* with status ok, or an empty record set with an error status; never a part
\* of the rows, never rows normalised in part.
C16_CompleteOrEmpty ==
    stored.has_data =>
        \/ /\ ~stored.is_error
           /\ stored.status = "Live"
           /\ Len(stored.records) = Cardinality(Kept)
           /\ \A i \in Kept : InWorkingSet(i)
           /\ \A k \in 1..Len(stored.records) : FullyNormalized(stored.records[k])
        \/ /\ stored.is_error
           /\ stored.status # "Live"
           /\ stored.records = <<>>

\* C20: the stored snapshot is empty at first, is replaced as a whole by the
\* records of each successful refresh, and is left as it was by each failed
\* refresh.
C20_FailedRefreshKeepsSnapshot ==
    [][IF load_data(raw').is_error
       THEN stored'.records = stored.records
       ELSE stored'.records = load_data(raw').records]_vars


(***************************************************************************)
(* update_dashboard: the properties below are checked under SpecDash.      *)
(***************************************************************************)
\* the call returned its outputs
Returned == dash.kind = "ok"
\* the records of the snapshot the call got
Snap == call.stored_dict.records
\* the field of a record is one of the values selected
Member(r, col, selection) == r[col].kind = "str" /\ r[col].s \in selection
\* a selection restricts a field, an empty one does not
Admits(r, col, selection) == selection = {} \/ Member(r, col, selection)
\* the same for the category, compared as it is
AdmitsCategory(r, anemia) == anemia = {} \/ r.anemia_category \in anemia
\* the same for the category, compared without regard to case
AdmitsCategoryAnyCase(r, anemia) ==
    anemia = {} \/ \E x \in anemia : lower_cat(x) = lower_cat(r.anemia_category)
\* the rows of the snapshot in a set of row numbers, as the table lists them
Listed(S) == [k \in 1..Cardinality(S) |-> Snap[CHOOSE i \in S : Cardinality({ j \in S : j < i }) = k - 1]]
\* the PSU selection the call starts from: the village clicked on the map
\* when the click triggered the call and the village is a PSU of the
\* snapshot, the selection of the dropdown otherwise
PsuAsked ==
    IF /\ call.triggered_id = "map"
       /\ \E i \in 1..Len(Snap) : Member(Snap[i], "PSU_Name", {call.clickData})
    THEN {call.clickData} ELSE call.psu
\* the PSU selection in effect: the values asked for that a record meeting
\* the area, beneficiary and anemia selections carries
PsuInEffect ==
    { p \in PsuAsked : \E i \in 1..Len(Snap) :
        /\ Member(Snap[i], "PSU_Name", {p})
        /\ Admits(Snap[i], "Area_COde", call.area)
        /\ Admits(Snap[i], "Benificiery", call.benificiery)
        /\ AdmitsCategory(Snap[i], call.anemia) }

\* C12 as stated: the records used for counts, charts and table are exactly
\* the snapshot records whose value is a member of the selection given, for
\* every dimension whose selection is not empty
C12_FilteredSet ==
    Returned =>
        dash.table = Listed({ i \in 1..Len(Snap) :
                                /\ Admits(Snap[i], "PSU_Name", call.psu)
                                /\ Admits(Snap[i], "Area_COde", call.area)
                                /\ Admits(Snap[i], "Benificiery", call.benificiery)
                                /\ AdmitsCategory(Snap[i], call.anemia) })
\* C12 amended: the same with the PSU selection in effect (the one asked
\* for, less the values no record meeting the other selections carries) in
\* the place of the PSU selection given, and the category compared without
\* regard to case
C12_FilteredSetAmended ==
    Returned =>
        dash.table = Listed({ i \in 1..Len(Snap) :
                                /\ Admits(Snap[i], "PSU_Name", PsuInEffect)
                                /\ Admits(Snap[i], "Area_COde", call.area)
                                /\ Admits(Snap[i], "Benificiery", call.benificiery)
                                /\ AdmitsCategoryAnyCase(Snap[i], call.anemia) })
\* a call with a PSU and an area selected, one PSU of which is dropped and
\* one kept, that uses some but not all of the records
C12_Witness ==
    /\ Returned
    /\ call.area # {}
    /\ PsuInEffect # {}
    /\ PsuInEffect # call.psu
    /\ call.triggered_id # "map"
    /\ dash.total > 0
    /\ dash.total < Len(Snap)

\* the values of an option list
Values(opts) == { opts[k] : k \in 1..Len(opts) }
\* the rows of the snapshot that meet the four selections
Meeting(psu, area, benificiery, anemia) ==
    { i \in 1..Len(Snap) :
        /\ Admits(Snap[i], "PSU_Name", psu)
        /\ Admits(Snap[i], "Area_COde", area)
        /\ Admits(Snap[i], "Benificiery", benificiery)
        /\ AdmitsCategory(Snap[i], anemia) }
\* the distinct non-null values of a column in a set of rows
Distinct(S, col) == { Snap[i][col].s : i \in { j \in S : Snap[j][col].kind = "str" } }
DistinctCategories(S) == { Snap[i].anemia_category : i \in S } \ {PyNone}
\* the four option lists are computed from the rows meeting the other three
\* selections, the PSU selection being psu
OptionListsUnder(psu) ==
    /\ Values(dash.psu_opts)
         = Distinct(Meeting({}, call.area, call.benificiery, call.anemia), "PSU_Name")
    /\ Values(dash.area_opts)
         = Distinct(Meeting(psu, {}, call.benificiery, call.anemia), "Area_COde")
    /\ Values(dash.benif_opts)
         = Distinct(Meeting(psu, call.area, {}, call.anemia), "Benificiery")
    /\ Values(dash.anemia_opts)
         = DistinctCategories(Meeting(psu, call.area, call.benificiery, {}))

\* C13 as stated: the option list of each dimension is the set of distinct
\* non-null values of the records meeting the selections of the other
\* dimensions as given in the criteria
C13_OptionLists == Returned => OptionListsUnder(call.psu)
\* C13 amended: the same, the PSU selection in effect (the one the call
\* returns) taking the place of the PSU selection given
C13_OptionListsAmended == Returned => OptionListsUnder(PsuInEffect)
\* a call with an area, a beneficiary and a PSU selected, the PSU dropped:
\* the beneficiary list holds a value outside its own selection and is
\* smaller than the list of the whole snapshot
C13_Witness ==
    /\ Returned
    /\ call.area # {}
    /\ call.benificiery # {}
    /\ PsuInEffect # call.psu
    /\ ~(Values(dash.benif_opts) \subseteq call.benificiery)
    /\ Values(dash.benif_opts) # Distinct(1..Len(Snap), "Benificiery")

\* the final frame of the next call, made on the same snapshot with the
\* selections psu, area, benificiery and anemia in the dropdowns
Selecting(psu, area, benificiery, anemia) == final_frame(Snap, psu, area, benificiery, anemia)
\* C14: every value of an option list, selected alone for its dimension while
\* the other selections stay what they are after the call (the PSU selection
\* is the one the call returned), gives a filtered record set that is not
\* empty: both the set the next call computes and the set of the records
\* that are members of every selection
C14_OptionsNeverEmpty ==
    Returned =>
        /\ \A v \in Values(dash.psu_opts) :
            /\ Selecting({v}, call.area, call.benificiery, call.anemia) # {}
            /\ Meeting({v}, call.area, call.benificiery, call.anemia) # {}
        /\ \A v \in Values(dash.area_opts) :
            /\ Selecting(dash.psu, {v}, call.benificiery, call.anemia) # {}
            /\ Meeting(dash.psu, {v}, call.benificiery, call.anemia) # {}
        /\ \A v \in Values(dash.benif_opts) :
            /\ Selecting(dash.psu, call.area, {v}, call.anemia) # {}
            /\ Meeting(dash.psu, call.area, {v}, call.anemia) # {}
        /\ \A v \in Values(dash.anemia_opts) :
            /\ Selecting(dash.psu, call.area, call.benificiery, {v}) # {}
            /\ Meeting(dash.psu, call.area, call.benificiery, {v}) # {}
\* a call with a PSU and a beneficiary selected whose lists offer a PSU and
\* an area that are not selected, on a snapshot holding records the
\* selections exclude
C14_Witness ==
    /\ Returned
    /\ dash.psu # {}
    /\ call.benificiery # {}
    /\ \E v \in Values(dash.psu_opts) : v \notin dash.psu
    /\ \E v \in Values(dash.area_opts) : v \notin call.area
    /\ dash.total < Len(Snap)

\* the number of records of the table in a category
InCategory(cat) == Cardinality({ k \in 1..Len(dash.table) : dash.table[k].anemia_category = cat })
\* the anemic records of the table
Anemic == InCategory("mild") + InCategory("moderate") + InCategory("severe")
\* t tenths is x / y * 100 rounded to one decimal
IsPercentOf(t, x, y) ==
    /\ 2 * (t * y - 1000 * x) <= y
    /\ 2 * (1000 * x - t * y) <= y
\* C15: every call reports the number of filtered records, the number of
\* them in each category and the prevalence rounded to one decimal, and
\* reports total 0, mean hemoglobin 0 and prevalence 0 for an empty filtered
\* set, a successful refresh without records included, rather than failing
C15_CountsAndPrevalence ==
    call # NoCall =>
        /\ dash.kind # "raised"
        /\ dash.total = Len(dash.table)
        /\ dash.normal = InCategory("normal")
        /\ dash.mild = InCategory("mild")
        /\ dash.moderate = InCategory("moderate")
        /\ dash.severe = InCategory("severe")
        /\ dash.total > 0 => IsPercentOf(dash.prevalence, Anemic, dash.total)
        /\ dash.total = 0 => dash.avg_hgb = Num(0) /\ dash.prevalence = 0

\* the keys of a list of <<key, count>> pairs
Keys(counts) == [k \in 1..Len(counts) |-> counts[k][1]]
\* a list of keys in ascending order
Ascending(keys) == \A i, j \in 1..Len(keys) : i < j => StrLess(keys[i], keys[j])
\* the same call on the snapshot with its records in the opposite order
Reversed == [call EXCEPT !.stored_dict.records = [k \in 1..Len(Snap) |-> Snap[Len(Snap) + 1 - k]]]
BenificieryGroupsSorted ==
    /\ Ascending(Keys(dash.benif_counts))
    /\ called(Reversed).benif_counts = dash.benif_counts
AreaGroupsSorted ==
    /\ Ascending(dash.area_anemia)
    /\ called(Reversed).area_anemia = dash.area_anemia
AgeBandGroupsSorted ==
    /\ \A g \in 1..Len(dash.age_hover_data) : Ascending(Keys(dash.age_hover_data[g]))
    /\ called(Reversed).age_hover_data = dash.age_hover_data
\* C19: the breakdowns by area code, by beneficiary and by age band within a
\* beneficiary list their groups in ascending order of key, and the same
\* records in another row order give the same sequences of groups
C19_GroupsAscending ==
    Returned => BenificieryGroupsSorted /\ AreaGroupsSorted /\ AgeBandGroupsSorted

(***************************************************************************)
(* A session of the dashboard: the interval fires, the user changes a      *)
(* dropdown or clicks a village on the map, and each of these triggers     *)
(* update_dashboard on the current store and the current values of the     *)
(* dropdowns.  The PSU dropdown holds what the last call returned for it.  *)
(***************************************************************************)
MaxSessionRows == 2
SessionRows == {RowCoded, RowLabel, RowDropped}
SessionFetches ==
    { Fetch("ok", Shaped(Columns, rows), NowDay) : rows \in SeqsUpTo(SessionRows, MaxSessionRows) }
    \cup {Fetch("timeout", NoTable, NowDay)}
SessionRefreshed == [fetch \in SessionFetches |-> refresh_data(fetch)]
SessionAnemia == {{}, {"mild"}, {"moderate"}}
Villages == {V1.s, V2.s}

\* the value of the PSU dropdown after the last call: what the call returned
\* (None without data), or what it was given when the call raised
psu_value ==
    CASE dash.kind = "ok" -> dash.psu
      [] dash.kind = "raised" -> call.psu
      [] OTHER -> {}

\* the interval fires: refresh_data stores a snapshot, which triggers
\* update_dashboard
Tick ==
    /\ raw' \in SessionFetches
    /\ stored' = SessionRefreshed[raw']
    /\ call' = Call(stored', psu_value, call.area, call.benificiery, call.anemia,
                    "interval", call.clickData)
    /\ dash' = called(call')
    /\ UNCHANGED <<ageVars, cVars>>
\* the user changes the PSU dropdown
SelectPsu ==
    /\ call' \in { Call(stored, psu, call.area, call.benificiery, call.anemia,
                        "psu-dropdown", call.clickData) : psu \in PsuSelections }
    /\ dash' = called(call')
    /\ UNCHANGED <<ageVars, cVars, loadVars>>
\* the user changes the area dropdown
SelectArea ==
    /\ call' \in { Call(stored, psu_value, area, call.benificiery, call.anemia,
                        "area-dropdown", call.clickData) : area \in AreaSelections }
    /\ dash' = called(call')
    /\ UNCHANGED <<ageVars, cVars, loadVars>>
\* the user changes the beneficiary dropdown
SelectBenificiery ==
    /\ call' \in { Call(stored, psu_value, call.area, benificiery, call.anemia,
                        "benificiery-dropdown", call.clickData) :
                     benificiery \in BenificierySelections }
    /\ dash' = called(call')
    /\ UNCHANGED <<ageVars, cVars, loadVars>>
\* the user changes the anemia dropdown
SelectAnemia ==
    /\ call' \in { Call(stored, psu_value, call.area, call.benificiery, anemia,
                        "anemia-dropdown", call.clickData) : anemia \in SessionAnemia }
    /\ dash' = called(call')
    /\ UNCHANGED <<ageVars, cVars, loadVars>>
\* the user clicks a village on the map
ClickMap ==
    /\ call' \in { Call(stored, psu_value, call.area, call.benificiery, call.anemia,
                        "map", village) : village \in Villages }
    /\ dash' = called(call')
    /\ UNCHANGED <<ageVars, cVars, loadVars>>

NextSession ==
    \/ Tick
    \/ SelectPsu
    \/ SelectArea
    \/ SelectBenificiery
    \/ SelectAnemia
    \/ ClickMap

SpecSession == Init /\ [][NextSession]_vars

\* the call was made on a snapshot of a refresh that did not fail
OnGoodSnapshot == call.stored_dict.has_data /\ ~call.stored_dict.is_error
\* the village clicked is a PSU of the snapshot
ClickedIsPsu == \E i \in 1..Len(Snap) : Member(Snap[i], "PSU_Name", {call.clickData})
\* a step that is a click on a village that is no PSU of the snapshot
ClickOutside == call'.triggered_id = "map" /\ ~ClickedIsPsu'
\* C21: in every session, the PSU selection a call on a non-error snapshot
\* returns is within the PSU options of the same call; it is the selection
\* asked for (the village of a map click on a PSU, the value of the dropdown
\* otherwise) less the PSUs without a record under the area, beneficiary and
\* anemia selections; and a click on a village that is no PSU of the
\* snapshot leaves the PSU selection as it was
C21_PsuSelectionWithinOptions ==
    [][ OnGoodSnapshot' =>
          /\ Returned' => /\ dash'.psu \subseteq Values(dash'.psu_opts)
                          /\ dash'.psu = PsuInEffect'
          /\ ClickOutside => psu_value' = psu_value ]_vars
\* a click on a PSU of the snapshot, made while another PSU is selected,
\* that the area selection excludes: the call returns an empty selection
C21_Witness ==
    /\ OnGoodSnapshot
    /\ Returned
    /\ call.triggered_id = "map"
    /\ ClickedIsPsu
    /\ call.psu # {}
    /\ call.clickData \notin call.psu
    /\ call.area # {}
    /\ dash.psu = {}
    /\ dash.psu_opts # <<>>

====
